---------------------------- MODULE Spec2Model ----------------------------
(***************************************************************************)
(* A model of vectopng (src/vectopng.go): the colour parser, the dimension *)
(* parser, the -color flag handler, the colour-resource loader and the     *)
(* run of main from flag parsing to the PNG writes.                        *)
(*                                                                         *)
(* Strings are sequences of one-character strings, so that the parsers     *)
(* work on the characters as the code does.  A colour is the record        *)
(* [R, G, B, A] of color.NRGBA.  A colour table (colorDefs) is a function  *)
(* from strings to colours; the nil map is the empty function.             *)
(***************************************************************************)
EXTENDS Integers, Sequences, FiniteSets, TLC

VARIABLES
  pc,               \* position of the run in main / of the harness call
  argv,             \* option tokens of the command line not yet parsed
  nArg,             \* number of positional arguments (flag.NArg())
  colorDefs,        \* main's colorDefs table
  colorsFile,       \* -colors (TRUE when a file name was given)
  ios,              \* -ios
  scaleFactor,      \* -scale
  showVersion,      \* -version
  colorsArray,      \* parseColorsFile: the definitions unmarshalled from the file
  colors,           \* parseColorsFile: the slice the current pass ranges over
  remainingColors,  \* parseColorsFile: the slice the failures are appended to
  passes,           \* history: passes of parseColorsFile completed so far
  loadDefs,         \* history: colorDefs as it was when parseColorsFile was called
  inserted,         \* history: the keys parseColorsFile has assigned so far
  vec,              \* the unmarshalled vector document
  canvas,           \* the canvas renderVector returned
  written,          \* the PNG files written so far, in order
  stdout,           \* what was printed to standard output
  stderr,           \* what was printed to standard error
  exitStatus,       \* the process exit status (-1 while running)
  call,             \* harness: the arguments of a single function call
  result            \* harness: what that call returned

vars == <<pc, argv, nArg, colorDefs, colorsFile, ios, scaleFactor, showVersion,
          colorsArray, colors, remainingColors, passes, loadDefs, inserted,
          vec, canvas, written, stdout, stderr, exitStatus, call, result>>

None == "none"

\* The nil error; the other errors are records with a msg field.
Nil == [nil |-> TRUE]

\* The nil match of a regular expression (no submatch of the two patterns
\* below is empty).
NoMatch == <<>>

-----------------------------------------------------------------------------
(* Characters and their byte values *)

DecDigits == {"0", "1", "2", "3", "4", "5", "6", "7", "8", "9"}
LowerHex == {"a", "b", "c", "d", "e", "f"}
UpperHex == {"A", "B", "C", "D", "E", "F"}

\* The byte value of a character (ASCII), for the characters the model uses.
Ord(ch) ==
  CASE ch = " " -> 32  [] ch = "#" -> 35  [] ch = "-" -> 45  [] ch = "." -> 46
    [] ch = "/" -> 47
    [] ch = "0" -> 48  [] ch = "1" -> 49  [] ch = "2" -> 50  [] ch = "3" -> 51
    [] ch = "4" -> 52  [] ch = "5" -> 53  [] ch = "6" -> 54  [] ch = "7" -> 55
    [] ch = "8" -> 56  [] ch = "9" -> 57
    [] ch = "=" -> 61  [] ch = "@" -> 64
    [] ch = "A" -> 65  [] ch = "B" -> 66  [] ch = "C" -> 67  [] ch = "D" -> 68
    [] ch = "E" -> 69  [] ch = "F" -> 70  [] ch = "G" -> 71
    [] ch = "a" -> 97  [] ch = "b" -> 98  [] ch = "c" -> 99  [] ch = "d" -> 100
    [] ch = "e" -> 101 [] ch = "f" -> 102 [] ch = "g" -> 103 [] ch = "l" -> 108
    [] ch = "o" -> 111 [] ch = "p" -> 112 [] ch = "r" -> 114 [] ch = "x" -> 120
    [] ch = "z" -> 122

\* All sequences over S of length 0..n.
SeqUpTo(S, n) == UNION {[1..k -> S] : k \in 0..n}

-----------------------------------------------------------------------------
(* hexToValue, colorPattern, parseColor *)

\* The bytes of a string.
Bytes(s) == [i \in DOMAIN s |-> Ord(s[i])]

\* The byte values hexToValue compares with: '0', '9', 'a', 'f', 'A', 'F'.
Byte_0 == 48
Byte_9 == 57
Byte_a == 97
Byte_f == 102
Byte_A == 65
Byte_F == 70

\* A mutation of hexToValue: the upper-case branch forgets the +10.
hexToValue_NoUpperOffset(n) ==
  IF n >= Byte_0 /\ n <= Byte_9 THEN n - Byte_0
  ELSE IF n >= Byte_a /\ n <= Byte_f THEN n - Byte_a + 10
  ELSE IF n >= Byte_A /\ n <= Byte_F THEN n - Byte_A
  ELSE 0

\* hexToValue(n byte) uint8
hexToValue(n) ==
  IF n >= Byte_0 /\ n <= Byte_9 THEN n - Byte_0
  ELSE IF n >= Byte_a /\ n <= Byte_f THEN n - Byte_a + 10
  ELSE IF n >= Byte_A /\ n <= Byte_F THEN n - Byte_A + 10
  ELSE 0

\* hi<<4 | lo on uint8.  hexToValue returns at most 15, so the low nibble of
\* hi<<4 is zero and the bitwise or is the sum.
Nibbles(hi, lo) == ((hi * 16) % 256) + lo

NRGBA(r, g, b, a) == [R |-> r, G |-> g, B |-> b, A |-> a]

\* colorPattern = ^#([0-9a-fA-F]{3,8})$ : the submatch (the bytes after '#')
\* when the whole text matches, NoMatch otherwise.
colorPattern(c) ==
  IF /\ Len(c) >= 1
     /\ c[1] = "#"
     /\ Len(c) - 1 >= 3
     /\ Len(c) - 1 <= 8
     /\ \A i \in 2..Len(c) : c[i] \in DecDigits \cup LowerHex \cup UpperHex
  THEN Bytes(Tail(c))
  ELSE NoMatch

InvalidColor(c) == [ok |-> FALSE, err |-> [msg |-> "Invalid color", text |-> c]]

Ok(v) == [ok |-> TRUE, val |-> v]

parseColor(c, defs) ==
  IF c \in DOMAIN defs THEN Ok(defs[c])
  ELSE
    LET spec == colorPattern(c) IN
    IF spec = NoMatch THEN InvalidColor(c)
    ELSE IF Len(spec) = 3 THEN
      LET r == hexToValue(spec[1])
          g == hexToValue(spec[2])
          b == hexToValue(spec[3])
      IN Ok(NRGBA(Nibbles(r, r), Nibbles(g, g), Nibbles(b, b), 255))
    ELSE IF Len(spec) = 4 THEN
      LET a == hexToValue(spec[1])
          r == hexToValue(spec[2])
          g == hexToValue(spec[3])
          b == hexToValue(spec[4])
      IN Ok(NRGBA(Nibbles(r, r), Nibbles(g, g), Nibbles(b, b), Nibbles(a, a)))
    ELSE IF Len(spec) = 6 THEN
      LET r1 == hexToValue(spec[1])
          r2 == hexToValue(spec[2])
          g1 == hexToValue(spec[3])
          g2 == hexToValue(spec[4])
          b1 == hexToValue(spec[5])
          b2 == hexToValue(spec[6])
      IN Ok(NRGBA(Nibbles(r1, r2), Nibbles(g1, g2), Nibbles(b1, b2), 255))
    ELSE IF Len(spec) = 8 THEN
      LET a1 == hexToValue(spec[1])
          a2 == hexToValue(spec[2])
          r1 == hexToValue(spec[3])
          r2 == hexToValue(spec[4])
          g1 == hexToValue(spec[5])
          g2 == hexToValue(spec[6])
          b1 == hexToValue(spec[7])
          b2 == hexToValue(spec[8])
      IN Ok(NRGBA(Nibbles(r1, r2), Nibbles(g1, g2), Nibbles(b1, b2),
                  Nibbles(a1, a2)))
    ELSE InvalidColor(c)

-----------------------------------------------------------------------------
(* dpNumPattern, strconv.ParseFloat(_, 32), parseDpNum *)

\* The end of the longest run of decimal digits of n that starts at i.
DigitRunEnd(n, i) ==
  CHOOSE j \in i..Len(n) :
    /\ \A k \in i..j : n[k] \in DecDigits
    /\ j = Len(n) \/ n[j + 1] \notin DecDigits

\* Where a match of (\d+)dp can start in n: a digit whose (greedy) run of
\* digits is followed by "dp".
DpMatchStarts(n) ==
  {i \in 1..Len(n) :
     /\ n[i] \in DecDigits
     /\ LET e == DigitRunEnd(n, i) IN
          /\ e + 2 <= Len(n)
          /\ n[e + 1] = "d"
          /\ n[e + 2] = "p"}

\* dpNumPattern = (\d+)dp, not anchored: FindStringSubmatch returns the
\* submatch of the leftmost match anywhere in n, NoMatch when there is none.
dpNumPattern(n) ==
  IF DpMatchStarts(n) = {} THEN NoMatch
  ELSE LET i == CHOOSE s \in DpMatchStarts(n) : \A t \in DpMatchStarts(n) : s <= t
       IN SubSeq(n, i, DigitRunEnd(n, i))

RECURSIVE StripZeros(_)
StripZeros(s) ==
  IF Len(s) > 1 /\ s[1] = "0" THEN StripZeros(Tail(s)) ELSE s

RECURSIVE DecValue(_)
DecValue(s) ==
  IF s = <<>> THEN 0
  ELSE 10 * DecValue(SubSeq(s, 1, Len(s) - 1)) + (Ord(s[Len(s)]) - Byte_0)

\* The spacing of float32 values around v (24-bit significand).
RECURSIVE Ulp32(_)
Ulp32(v) == IF v < 16777216 THEN 1 ELSE 2 * Ulp32(v \div 2)

\* v rounded to the nearest float32, ties to even.
Round32(v) ==
  LET u == Ulp32(v)
      q == v \div u
      r == v % u
  IN IF 2 * r < u THEN q * u
     ELSE IF 2 * r > u THEN (q + 1) * u
     ELSE IF q % 2 = 0 THEN q * u ELSE (q + 1) * u

\* A string of at most 38 significant decimal digits is below 1e38 and so
\* within the float32 range (about 3.4e38).
MaxRangeDigits == 38

\* strconv.ParseFloat(s, 32) on a string of decimal digits: the value rounded
\* to float32, or a range error when it exceeds the float32 range.  (A string
\* of exactly 39 significant digits is out of range from 3.4028236e38 on; the
\* model's inputs hold none between 10 and 39 digits.)
ParseFloat32(s) ==
  IF Len(StripZeros(s)) > MaxRangeDigits
  THEN [ok |-> FALSE,
        err |-> [msg |-> "strconv.ParseFloat: value out of range", text |-> s]]
  ELSE Ok(Round32(DecValue(StripZeros(s))))

parseDpNum(n, name) ==
  LET match == dpNumPattern(n) IN
  IF match = NoMatch
  THEN [ok |-> FALSE, err |-> [msg |-> "Invalid", field |-> name, text |-> n]]
  ELSE LET width == ParseFloat32(match) IN
       IF ~width.ok THEN [ok |-> FALSE, err |-> width.err]
       ELSE Ok(width.val)

-----------------------------------------------------------------------------
(* Strings and colours the inputs are built from *)

\* var vec vector: the zero value of the struct.
ZeroVector == [XMLName |-> "", Width |-> <<>>, Height |-> <<>>, Paths |-> <<>>]

\* The nil *canvas.Canvas (a canvas has no negative size).
NilCanvas == [W |-> 0 - 1, H |-> 0 - 1, paths |-> <<>>]

Str_red == <<"r", "e", "d">>
Hex_F00 == <<"#", "F", "0", "0">>
Hex_00F == <<"#", "0", "0", "F">>
Hex_1F1 == <<"#", "1", "F", "1">>
AtColor == <<"@", "c", "o", "l", "o", "r", "/">>

Red == NRGBA(255, 0, 0, 255)
Blue == NRGBA(0, 0, 255, 255)
Green == NRGBA(0, 255, 0, 255)

NilDefs == <<>>

\* The state of the variables of main before main has run; the harness
\* specifications keep them so.
MainIdle ==
  /\ argv = <<>>
  /\ nArg = 1
  /\ colorsFile = FALSE
  /\ ios = FALSE
  /\ scaleFactor = 1
  /\ showVersion = FALSE
  /\ colorsArray = <<>>
  /\ colors = <<>>
  /\ remainingColors = <<>>
  /\ passes = 0
  /\ loadDefs = NilDefs
  /\ inserted = {}
  /\ vec = ZeroVector
  /\ canvas = NilCanvas
  /\ written = <<>>
  /\ stdout = <<>>
  /\ stderr = <<>>
  /\ exitStatus = -1

mainVars == <<argv, nArg, colorsFile, ios, scaleFactor, showVersion,
              colorsArray, colors, remainingColors, passes, loadDefs, inserted,
              vec, canvas, written, stdout, stderr, exitStatus>>

-----------------------------------------------------------------------------
(* SpecParseColor: one call of parseColor on a text and a table *)

\* Longest run of characters after the optional prefix in the generated texts.
MaxDigits == 9

HexChars == DecDigits \cup LowerHex \cup UpperHex

ColorTexts ==
  {<<"#", x, y, z>> : x \in HexChars, y \in {"0", "8", "c", "E"}, z \in {"3", "a", "D"}}
  \cup {<<"#", "F", y, z>> : y \in HexChars, z \in HexChars}
  \cup {pre \o body \o post :
          pre \in {<<>>, <<"#">>, <<"x", "#">>},
          body \in SeqUpTo({"1", "F"}, MaxDigits),
          post \in {<<>>, <<"g">>, <<"G">>, <<" ">>}}
  \cup {<<"#", "1", g, "F", "1", "1", "F">> : g \in {"g", "#", " ", "b"}}
  \cup {<<"#", "8", "4", "2", "1">>,
        <<"#", "1", "1", "2", "2", "3", "3">>,
        <<"#", "8", "0", "9", "0", "A", "0", "B", "0">>,
        Str_red, AtColor \o <<"a">>}

ColorTables ==
  {NilDefs,
   (Str_red :> Red) @@ (Hex_1F1 :> Blue) @@ ((AtColor \o <<"a">>) :> Green)}

InitParseColor ==
  /\ MainIdle
  /\ pc = "call"
  /\ colorDefs \in ColorTables
  /\ call \in {[fn |-> "parseColor", c |-> t] : t \in ColorTexts}
  /\ result = None

CallParseColor ==
  /\ pc = "call"
  /\ call.fn = "parseColor"
  /\ result' = parseColor(call.c, colorDefs)
  /\ pc' = "returned"
  /\ UNCHANGED <<mainVars, colorDefs, call>>

SpecParseColor == InitParseColor /\ [][CallParseColor]_vars

-----------------------------------------------------------------------------
(* SpecDpNum: one call of parseDpNum on a text and a field name *)

\* Longest generated dimension text.
MaxDimLen == 5

\* A text of 39 nines followed by "dp": beyond the float32 range.
Nines39dp == [i \in 1..39 |-> "9"] \o <<"d", "p">>

DimTexts ==
  SeqUpTo({"2", "4", "d", "p", ".", "x"}, MaxDimLen)
  \cup {<<"-", "2", "4", "d", "p">>,
        <<"0", "2", "4", "d", "p">>,
        <<"2", "4", "d", "p", " ">>,
        <<"1", "6", "7", "7", "7", "2", "1", "7", "d", "p">>,
        Nines39dp}

InitDpNum ==
  /\ MainIdle
  /\ pc = "call"
  /\ colorDefs = NilDefs
  /\ call \in {[fn |-> "parseDpNum", n |-> t, name |-> f] :
                 t \in DimTexts, f \in {"width", "height"}}
  /\ result = None

CallParseDpNum ==
  /\ pc = "call"
  /\ call.fn = "parseDpNum"
  /\ result' = parseDpNum(call.n, call.name)
  /\ pc' = "returned"
  /\ UNCHANGED <<mainVars, colorDefs, call>>

SpecDpNum == InitDpNum /\ [][CallParseDpNum]_vars

-----------------------------------------------------------------------------
(* errorExit and parseColorsFile *)

\* errorExit(msg, err): prints "ERROR: ", msg, the error in parentheses when
\* there is one, and a newline to standard output, then os.Exit(1).
errorExit(msg, err) ==
  /\ stdout' = stdout \o <<"ERROR: ", msg>>
                 \o (IF err # Nil THEN <<" (", err, ")">> ELSE <<>>)
                 \o <<"\n">>
  /\ exitStatus' = 1
  /\ pc' = "exit"

\* "@color/" + colorDef.Name
ColorKey(name) == AtColor \o name

\* A mutation of RangeColors: a definition that fails is not carried over.
RECURSIVE RangeColors_DropsFailures(_, _, _, _)
RangeColors_DropsFailures(cs, defs, rem, set) ==
  IF cs = <<>> THEN [defs |-> defs, rem |-> rem, set |-> set]
  ELSE LET colorDef == Head(cs)
           r == parseColor(colorDef.Color, defs)
       IN IF r.ok
          THEN RangeColors_DropsFailures(Tail(cs),
                           (ColorKey(colorDef.Name) :> r.val) @@ defs,
                           rem,
                           set \cup {ColorKey(colorDef.Name)})
          ELSE RangeColors_DropsFailures(Tail(cs), defs, rem, set)

\* A mutation of RangeColors: the table is assigned whether or not parseColor
\* failed (the nil colour on failure).
RECURSIVE RangeColors_AssignsOnError(_, _, _, _)
RangeColors_AssignsOnError(cs, defs, rem, set) ==
  IF cs = <<>> THEN [defs |-> defs, rem |-> rem, set |-> set]
  ELSE LET colorDef == Head(cs)
           r == parseColor(colorDef.Color, defs)
       IN IF r.ok
          THEN RangeColors_AssignsOnError(Tail(cs),
                           (ColorKey(colorDef.Name) :> r.val) @@ defs,
                           rem,
                           set \cup {ColorKey(colorDef.Name)})
          ELSE RangeColors_AssignsOnError(Tail(cs),
                           (ColorKey(colorDef.Name) :> NRGBA(0, 0, 0, 0)) @@ defs,
                           Append(rem, colorDef),
                           set \cup {ColorKey(colorDef.Name)})

\* One run of the inner loop (for _, colorDef := range colors) from table defs
\* and slice rem: the table and the slice after it.  set collects the keys
\* assigned, for the history variable `inserted`.
RECURSIVE RangeColors(_, _, _, _)
RangeColors(cs, defs, rem, set) ==
  IF cs = <<>> THEN [defs |-> defs, rem |-> rem, set |-> set]
  ELSE LET colorDef == Head(cs)
           r == parseColor(colorDef.Color, defs)
       IN IF r.ok
          THEN RangeColors(Tail(cs),
                           (ColorKey(colorDef.Name) :> r.val) @@ defs,
                           rem,
                           set \cup {ColorKey(colorDef.Name)})
          ELSE RangeColors(Tail(cs), defs, Append(rem, colorDef), set)

\* Passes of parseColorsFile the model follows; the code has no such limit.
MaxPasses == 5

\* parseColorsFile up to the loop: read the file, unmarshal it.  The file and
\* its content are the environment's choice among `files`.
ReadColorsFile(files) ==
  /\ pc = "colors"
  /\ \E f \in files :
       IF f.readErr # Nil THEN
         /\ errorExit("Cannot read colors file", f.readErr)
         /\ UNCHANGED <<colorsArray, colors, remainingColors, loadDefs>>
       ELSE IF f.xmlErr # Nil THEN
         /\ errorExit("Cannot parse colors file", f.xmlErr)
         /\ UNCHANGED <<colorsArray, colors, remainingColors, loadDefs>>
       ELSE
         /\ colorsArray' = f.Colors
         /\ colors' = f.Colors
         /\ remainingColors' = <<>>
         /\ loadDefs' = colorDefs
         /\ pc' = "pass"
         /\ UNCHANGED <<stdout, exitStatus>>
  /\ UNCHANGED <<argv, nArg, colorDefs, colorsFile, ios, scaleFactor,
                 showVersion, passes, inserted, vec, canvas, written, stderr,
                 call, result>>

\* One iteration of the outer loop (for true) of parseColorsFile.
\* remainingColors is not reset between iterations.
ResolvePass ==
  /\ pc = "pass"
  /\ passes < MaxPasses
  /\ LET r == RangeColors(colors, colorDefs, remainingColors, {}) IN
       /\ colorDefs' = r.defs
       /\ remainingColors' = r.rem
       /\ inserted' = inserted \cup r.set
       /\ IF Len(r.rem) = 0 \/ Len(colors) = Len(r.rem)
          THEN pc' = "readvec" /\ colors' = colors
          ELSE pc' = "pass" /\ colors' = r.rem
  /\ passes' = passes + 1
  /\ UNCHANGED <<argv, nArg, colorsFile, ios, scaleFactor, showVersion,
                 colorsArray, loadDefs, vec, canvas, written, stdout, stderr,
                 exitStatus, call, result>>

-----------------------------------------------------------------------------
(* SpecColors: parseColorsFile on a colour-resource file and a table *)

\* Most definitions in a generated colour-resource file.
MaxDefs == 3

Name_a == <<"a">>
Name_b == <<"b">>
Name_c == <<"c">>

ColorDef(n, c) == [Name |-> n, Color |-> c]

\* Definitions of a, b and c: literals, references to each other (chains and
\* cycles) and a reference to a name no file defines.
ColorDefChoices ==
  {ColorDef(Name_a, Hex_00F), ColorDef(Name_a, AtColor \o Name_b),
   ColorDef(Name_b, Hex_F00), ColorDef(Name_b, AtColor \o Name_c),
   ColorDef(Name_b, AtColor \o <<"z">>),
   ColorDef(Name_c, Hex_F00), ColorDef(Name_c, Hex_00F),
   ColorDef(Name_c, AtColor \o Name_b)}

NoFile == [readErr |-> Nil, xmlErr |-> Nil, Colors |-> <<>>]

GeneratedColorFiles ==
  {[NoFile EXCEPT !.Colors = cs] : cs \in SeqUpTo(ColorDefChoices, MaxDefs)}
  \cup {[NoFile EXCEPT !.readErr = [msg |-> "no such file or directory"]],
        [NoFile EXCEPT !.xmlErr = [msg |-> "XML syntax error"]]}

\* Tables parseColorsFile can be called with: what -color flags can define.
PresetTables ==
  {NilDefs,
   (AtColor \o Name_b) :> Green,
   (Str_red :> Red) @@ (Hex_00F :> Green)}

InitColors ==
  /\ MainIdle
  /\ pc = "colors"
  /\ colorDefs \in PresetTables
  /\ call = None
  /\ result = None

ReadGeneratedColorsFile == ReadColorsFile(GeneratedColorFiles)

NextColors == ReadGeneratedColorsFile \/ ResolvePass

SpecColors == InitColors /\ [][NextColors]_vars

-----------------------------------------------------------------------------
(* colorDefs.Set: the handler of a -color flag *)

\* strings.SplitN(value, "=", 2)
SplitN2(value) ==
  IF \E i \in 1..Len(value) : value[i] = "="
  THEN LET i == CHOOSE k \in 1..Len(value) :
                  value[k] = "=" /\ \A j \in 1..(k - 1) : value[j] # "="
       IN <<SubSeq(value, 1, i - 1), SubSeq(value, i + 1, Len(value))>>
  ELSE <<value>>

\* strings.TrimSpace (of the white space, the model's texts hold the blank only)
RECURSIVE TrimSpace(_)
TrimSpace(s) ==
  IF s # <<>> /\ s[1] = " " THEN TrimSpace(Tail(s))
  ELSE IF s # <<>> /\ s[Len(s)] = " " THEN TrimSpace(SubSeq(s, 1, Len(s) - 1))
  ELSE s

InvalidColorDefinition(value) ==
  [ok |-> FALSE, err |-> [msg |-> "Invalid color definition", text |-> value]]

\* A mutation of Set: the value is parsed with the table built so far.
Set_LooksUpTable(value, cd) ==
  LET parts == SplitN2(value) IN
  IF Len(parts) # 2 THEN InvalidColorDefinition(value)
  ELSE LET color == parseColor(TrimSpace(parts[2]), cd) IN
       IF ~color.ok THEN InvalidColorDefinition(value)
       ELSE Ok((TrimSpace(parts[1]) :> color.val) @@ cd)

\* (cd *colorDefs) Set(value): the table after the call, or the error.
Set(value, cd) ==
  LET parts == SplitN2(value) IN
  IF Len(parts) # 2 THEN InvalidColorDefinition(value)
  ELSE LET color == parseColor(TrimSpace(parts[2]), NilDefs) IN
       IF ~color.ok THEN InvalidColorDefinition(value)
       ELSE Ok((TrimSpace(parts[1]) :> color.val) @@ cd)

-----------------------------------------------------------------------------
(* renderVector *)

Transparent == NRGBA(0, 0, 0, 0)

\* Whether canvas.MustParseSVGPath accepts the path data (it panics otherwise).
\* Path data is one of two tokens: a well-formed path, or "?".
ValidSVGPath(d) == d # "?"

RenderOk(c) == [kind |-> "ok", val |-> c]
RenderErr(e) == [kind |-> "err", err |-> e]
RenderPanic(d) == [kind |-> "panic", err |-> d]

\* A mutation of DrawPaths: a path whose colour does not parse is skipped.
RECURSIVE DrawPaths_SkipsBadColor(_, _, _)
DrawPaths_SkipsBadColor(paths, defs, c) ==
  IF paths = <<>> THEN RenderOk(c)
  ELSE
    LET pathElem == Head(paths)
        fill == IF pathElem.FillColor # <<>>
                THEN parseColor(pathElem.FillColor, defs) ELSE Ok(Transparent)
        stroke == IF pathElem.StrokeColor # <<>>
                  THEN parseColor(pathElem.StrokeColor, defs) ELSE Ok(Transparent)
    IN IF ~ValidSVGPath(pathElem.PathData) THEN RenderPanic(pathElem.PathData)
       ELSE IF ~fill.ok \/ ~stroke.ok
       THEN DrawPaths_SkipsBadColor(Tail(paths), defs, c)
       ELSE DrawPaths_SkipsBadColor(Tail(paths), defs,
              [c EXCEPT !.paths = Append(@, [fill |-> fill.val,
                                             stroke |-> stroke.val])])

\* The loop over vec.Paths: the canvas with the paths drawn, the first colour
\* error, or the panic of MustParseSVGPath.
RECURSIVE DrawPaths(_, _, _)
DrawPaths(paths, defs, c) ==
  IF paths = <<>> THEN RenderOk(c)
  ELSE
    LET pathElem == Head(paths)
        fill == IF pathElem.FillColor # <<>>
                THEN parseColor(pathElem.FillColor, defs) ELSE Ok(Transparent)
        stroke == IF pathElem.StrokeColor # <<>>
                  THEN parseColor(pathElem.StrokeColor, defs) ELSE Ok(Transparent)
    IN IF ~ValidSVGPath(pathElem.PathData) THEN RenderPanic(pathElem.PathData)
       ELSE IF ~fill.ok THEN RenderErr(fill.err)
       ELSE IF ~stroke.ok THEN RenderErr(stroke.err)
       ELSE DrawPaths(Tail(paths), defs,
              [c EXCEPT !.paths = Append(@, [fill |-> fill.val,
                                             stroke |-> stroke.val])])

renderVector(v, defs) ==
  LET width == parseDpNum(v.Width, "width")
      height == parseDpNum(v.Height, "height")
  IN IF ~width.ok THEN RenderErr(width.err)
     ELSE IF ~height.ok THEN RenderErr(height.err)
     ELSE DrawPaths(v.Paths, defs,
                    [W |-> width.val, H |-> height.val, paths |-> <<>>])

-----------------------------------------------------------------------------
(* main *)

version == "1.0"

\* The flags main defines before flag.Parse.
DefinedFlags == {"color", "colors", "scale", "ios", "version"}

UsageText == "Usage: vectopng [options] <vector-image-input> [<png-image-output>]"

\* What the flag package (ExitOnError) does with an option it rejects: the
\* report on standard error, flag.Usage, exit status 2.
FlagFail(report) ==
  /\ stderr' = Append(stderr, report)
  /\ stdout' = Append(stdout, UsageText)
  /\ exitStatus' = 2
  /\ pc' = "exit"

\* flag.Parse on the next option token: an undefined flag or a value Set
\* rejects fails the run, anything else sets the flag's variable.
ParseFlag ==
  /\ pc = "flags"
  /\ argv # <<>>
  /\ LET t == Head(argv) IN
       IF t.name \notin DefinedFlags THEN
         /\ FlagFail([msg |-> "flag provided but not defined", flag |-> t.name])
         /\ UNCHANGED <<colorDefs, colorsFile, scaleFactor, ios, showVersion>>
       ELSE IF t.name = "color" THEN
         LET set == Set(t.value, colorDefs) IN
           /\ IF set.ok
              THEN /\ colorDefs' = set.val
                   /\ UNCHANGED <<stderr, stdout, exitStatus, pc>>
              ELSE /\ FlagFail([msg |-> "invalid value for flag",
                                flag |-> t.name, value |-> t.value,
                                err |-> set.err])
                   /\ colorDefs' = colorDefs
           /\ UNCHANGED <<colorsFile, scaleFactor, ios, showVersion>>
       ELSE
         /\ colorsFile' = (colorsFile \/ t.name = "colors")
         /\ scaleFactor' = IF t.name = "scale" THEN t.value ELSE scaleFactor
         /\ ios' = (ios \/ t.name = "ios")
         /\ showVersion' = (showVersion \/ t.name = "version")
         /\ UNCHANGED <<colorDefs, stderr, stdout, exitStatus, pc>>
  /\ argv' = Tail(argv)
  /\ UNCHANGED <<nArg, colorsArray, colors, remainingColors, passes, loadDefs,
                 inserted, vec, canvas, written, call, result>>

\* main from the return of flag.Parse to the call of parseColorsFile.
AfterFlags ==
  /\ pc = "flags"
  /\ argv = <<>>
  /\ IF showVersion THEN
       /\ stdout' = stdout \o <<version, "\n">>
       /\ exitStatus' = 0
       /\ pc' = "exit"
     ELSE IF nArg # 1 /\ nArg # 2 THEN
       /\ stdout' = stdout \o <<"ERROR: Input vector image parameter is missing",
                                "\n", UsageText>>
       /\ exitStatus' = 1
       /\ pc' = "exit"
     ELSE
       /\ pc' = IF colorsFile THEN "colors" ELSE "readvec"
       /\ UNCHANGED <<stdout, exitStatus>>
  /\ UNCHANGED <<argv, nArg, colorDefs, colorsFile, ios, scaleFactor,
                 showVersion, colorsArray, colors, remainingColors, passes,
                 loadDefs, inserted, vec, canvas, written, stderr, call, result>>

\* main: read and unmarshal the vector file, check the root element.  The file
\* and its content are the environment's choice among `files`.
ReadVectorFile(files) ==
  /\ pc = "readvec"
  /\ \E f \in files :
       IF f.readErr # Nil THEN
         errorExit("Cannot read vector file", f.readErr) /\ vec' = vec
       ELSE IF f.xmlErr # Nil THEN
         errorExit("Cannot parse vector file", f.xmlErr) /\ vec' = vec
       ELSE IF f.vec.XMLName # "vector" THEN
         errorExit("Not a valid Android vector drawable", Nil) /\ vec' = f.vec
       ELSE
         /\ vec' = f.vec
         /\ pc' = "render"
         /\ UNCHANGED <<stdout, exitStatus>>
  /\ UNCHANGED <<argv, nArg, colorDefs, colorsFile, ios, scaleFactor,
                 showVersion, colorsArray, colors, remainingColors, passes,
                 loadDefs, inserted, canvas, written, stderr, call, result>>

\* main: the call of renderVector.  A panic ends the process with status 2
\* and the panic message on standard error.
Render ==
  /\ pc = "render"
  /\ LET r == renderVector(vec, colorDefs) IN
       IF r.kind = "ok" THEN
         /\ canvas' = r.val
         /\ pc' = "save"
         /\ UNCHANGED <<stdout, stderr, exitStatus>>
       ELSE IF r.kind = "err" THEN
         /\ errorExit("Cannot render vector file", r.err)
         /\ UNCHANGED <<canvas, stderr>>
       ELSE
         /\ stderr' = Append(stderr, [msg |-> "panic", err |-> r.err])
         /\ exitStatus' = 2
         /\ pc' = "exit"
         /\ UNCHANGED <<canvas, stdout>>
  /\ UNCHANGED <<argv, nArg, colorDefs, colorsFile, ios, scaleFactor,
                 showVersion, colorsArray, colors, remainingColors, passes,
                 loadDefs, inserted, vec, written, call, result>>

\* pngFile: derived from the vector file's name when only one argument is given.
pngFile == IF nArg = 1 THEN "<vector-image-input without extension>.png"
           ELSE "<png-image-output>"

\* main: the next saveCanvas call (the base file, then with -ios the @2x and
\* @3x files).  Whether the write succeeds is the environment's choice.
SaveCanvas ==
  /\ pc = "save"
  /\ LET k == Len(written) + 1
         suffix == IF k = 1 THEN "" ELSE IF k = 2 THEN "@2x.png" ELSE "@3x.png"
     IN \E ok \in BOOLEAN :
          IF ok THEN
            /\ written' = Append(written, [file |-> <<pngFile, suffix>>,
                                           canvas |-> canvas,
                                           scale |-> k * scaleFactor])
            /\ IF ~ios \/ k = 3
               THEN pc' = "exit" /\ exitStatus' = 0
               ELSE pc' = "save" /\ exitStatus' = exitStatus
            /\ stdout' = stdout
          ELSE
            /\ errorExit("Cannot save PNG data", [msg |-> "write error"])
            /\ written' = written
  /\ UNCHANGED <<argv, nArg, colorDefs, colorsFile, ios, scaleFactor,
                 showVersion, colorsArray, colors, remainingColors, passes,
                 loadDefs, inserted, vec, canvas, stderr, call, result>>

-----------------------------------------------------------------------------
(* Spec: a run of main on a command line, a colours file and a vector file *)

\* Most option tokens on the command line.
MaxArgs == 2

\* Most positional arguments on the command line.
MaxPositional == 3

\* Most path elements in a vector document.
MaxPaths == 2

FlagTokens ==
  {[name |-> "color", value |-> <<"a", "=", "#", "F", "0", "0">>],
   [name |-> "color", value |-> <<"b", "=", "a">>],
   [name |-> "color", value |-> <<"b", "a", "d">>],
   [name |-> "color",
    value |-> <<" ">> \o AtColor \o <<"a", " ", "=", " ", "#", "0", "0", "F", " ">>],
   [name |-> "colors", value |-> "colors.xml"],
   [name |-> "scale", value |-> 2],
   [name |-> "ios", value |-> None],
   [name |-> "version", value |-> None],
   [name |-> "width", value |-> 48],
   [name |-> "height", value |-> 48]}

ColorFiles ==
  {[NoFile EXCEPT !.readErr = [msg |-> "no such file or directory"]],
   [NoFile EXCEPT !.xmlErr = [msg |-> "XML syntax error"]],
   [NoFile EXCEPT !.Colors = <<ColorDef(Name_a, AtColor \o Name_b),
                               ColorDef(Name_b, Hex_F00)>>],
   [NoFile EXCEPT !.Colors = <<ColorDef(Name_a, AtColor \o Name_b),
                               ColorDef(Name_b, AtColor \o Name_a)>>],
   [NoFile EXCEPT !.Colors = <<ColorDef(Name_c, Hex_F00),
                               ColorDef(Name_b, AtColor \o <<"z">>)>>]}

Path(fill, stroke, data) ==
  [FillColor |-> fill, StrokeColor |-> stroke, PathData |-> data]

PathChoices ==
  {Path(Hex_F00, <<>>, "M0,0 L1,0 L1,1 Z"),
   Path(<<>>, AtColor \o Name_b, "M0,0 L1,0 L1,1 Z"),
   Path(AtColor \o Name_a, <<>>, "M0,0 L1,0 L1,1 Z"),
   Path(<<"a">>, Hex_00F, "M0,0 L1,0 L1,1 Z"),
   Path(Hex_F00, <<>>, "?")}

Dp24 == <<"2", "4", "d", "p">>

DimChoices ==
  {<<Dp24, Dp24>>,
   <<<<"2", "4", "p", "x">>, Dp24>>,
   <<Dp24, <<"d", "p">>>>,
   <<<<"2", ".", "4", "d", "p">>, <<"4", "2", "d", "p">>>>}

NoVectorFile == [readErr |-> Nil, xmlErr |-> Nil, vec |-> ZeroVector]

VectorFiles ==
  {[NoVectorFile EXCEPT !.readErr = [msg |-> "no such file or directory"]],
   [NoVectorFile EXCEPT !.xmlErr = [msg |-> "XML syntax error"]],
   [NoVectorFile EXCEPT !.vec = [ZeroVector EXCEPT !.XMLName = "svg"]]}
  \cup {[NoVectorFile EXCEPT !.vec = [XMLName |-> "vector", Width |-> d[1],
                                      Height |-> d[2], Paths |-> ps]] :
          d \in DimChoices, ps \in SeqUpTo(PathChoices, MaxPaths)}

Init ==
  /\ pc = "flags"
  /\ argv \in SeqUpTo(FlagTokens, MaxArgs)
  /\ nArg \in 0..MaxPositional
  /\ colorDefs = NilDefs
  /\ colorsFile = FALSE
  /\ ios = FALSE
  /\ scaleFactor = 1
  /\ showVersion = FALSE
  /\ colorsArray = <<>>
  /\ colors = <<>>
  /\ remainingColors = <<>>
  /\ passes = 0
  /\ loadDefs = NilDefs
  /\ inserted = {}
  /\ vec = ZeroVector
  /\ canvas = NilCanvas
  /\ written = <<>>
  /\ stdout = <<>>
  /\ stderr = <<>>
  /\ exitStatus = -1
  /\ call = None
  /\ result = None

ReadTheColorsFile == ReadColorsFile(ColorFiles)

ReadTheVectorFile == ReadVectorFile(VectorFiles)

Next ==
  \/ ParseFlag
  \/ AfterFlags
  \/ ReadTheColorsFile
  \/ ResolvePass
  \/ ReadTheVectorFile
  \/ Render
  \/ SaveCanvas

Spec == Init /\ [][Next]_vars

-----------------------------------------------------------------------------
(* What the properties are stated with: hex literals and their colours,     *)
(* reference chains, read off the specification and not off the code.       *)

HexVal ==
  ("0" :> 0) @@ ("1" :> 1) @@ ("2" :> 2) @@ ("3" :> 3) @@ ("4" :> 4) @@
  ("5" :> 5) @@ ("6" :> 6) @@ ("7" :> 7) @@ ("8" :> 8) @@ ("9" :> 9) @@
  ("a" :> 10) @@ ("b" :> 11) @@ ("c" :> 12) @@ ("d" :> 13) @@ ("e" :> 14) @@
  ("f" :> 15) @@ ("A" :> 10) @@ ("B" :> 11) @@ ("C" :> 12) @@ ("D" :> 13) @@
  ("E" :> 14) @@ ("F" :> 15)

\* '#' followed by 3, 4, 6 or 8 hexadecimal digits.
IsHexLiteral(c) ==
  /\ Len(c) \in {4, 5, 7, 9}
  /\ c[1] = "#"
  /\ \A i \in 2..Len(c) : c[i] \in DOMAIN HexVal

Twice(h) == 16 * HexVal[h] + HexVal[h]
Pair(h, l) == 16 * HexVal[h] + HexVal[l]

\* The colour a hex literal denotes.
LiteralColor(c) ==
  CASE Len(c) = 4 -> [R |-> Twice(c[2]), G |-> Twice(c[3]), B |-> Twice(c[4]),
                      A |-> 255]
    [] Len(c) = 5 -> [R |-> Twice(c[3]), G |-> Twice(c[4]), B |-> Twice(c[5]),
                      A |-> Twice(c[2])]
    [] Len(c) = 7 -> [R |-> Pair(c[2], c[3]), G |-> Pair(c[4], c[5]),
                      B |-> Pair(c[6], c[7]), A |-> 255]
    [] Len(c) = 9 -> [R |-> Pair(c[4], c[5]), G |-> Pair(c[6], c[7]),
                      B |-> Pair(c[8], c[9]), A |-> Pair(c[2], c[3])]

Range(s) == {s[i] : i \in DOMAIN s}

DistinctNames(defs) ==
  \A i, j \in DOMAIN defs : i # j => defs[i].Name # defs[j].Name

Refers(text, d) == text = <<"@", "c", "o", "l", "o", "r", "/">> \o d.Name

\* The literal a reference chain starting at text ends in within fuel steps,
\* None when it ends in an undefined name or does not end.
RECURSIVE ChainEnd(_, _, _)
ChainEnd(text, defs, fuel) ==
  IF IsHexLiteral(text) THEN text
  ELSE IF fuel = 0 \/ ~\E d \in Range(defs) : Refers(text, d) THEN None
  ELSE ChainEnd((CHOOSE d \in Range(defs) : Refers(text, d)).Color, defs, fuel - 1)

\* Distinct names, references acyclic and to defined names or hex literals.
WellFormed(defs) ==
  /\ DistinctNames(defs)
  /\ \A d \in Range(defs) : ChainEnd(d.Color, defs, Len(defs)) # None

\* The texts that can come to be resolvable: the keys K, and the keys of the
\* definitions whose text is a literal or such a text.
RECURSIVE ResolvableKeys(_, _)
ResolvableKeys(K, defs) ==
  LET K2 == K \cup {<<"@", "c", "o", "l", "o", "r", "/">> \o d.Name :
                      d \in {e \in Range(defs) :
                               IsHexLiteral(e.Color) \/ e.Color \in K}}
  IN IF K2 = K THEN K ELSE ResolvableKeys(K2, defs)

\* A definition of the loaded file that can never resolve.
NeverResolves(d) ==
  /\ ~IsHexLiteral(d.Color)
  /\ d.Color \notin ResolvableKeys(DOMAIN loadDefs, colorsArray)

Max(x, y) == IF x >= y THEN x ELSE y

-----------------------------------------------------------------------------
(* Claims about parseColorsFile (SpecColors) *)

\* C1 (as claimed): the resolution loop stops as soon as a pass leaves no
\* definition unresolved or a full pass has resolved nothing new.
C1_StopsWhenNoProgress ==
  [][(/\ pc = "pass"
      /\ passes' = passes + 1
      /\ \/ inserted' = inserted
         \/ \A i \in DOMAIN colorsArray :
              (<<"@", "c", "o", "l", "o", "r", "/">> \o colorsArray[i].Name)
                \in inserted')
     => pc' # "pass"]_vars

\* C2 (as claimed): a key once assigned by some pass keeps its value through
\* every later pass, whatever the definition sequence.
C2_NeverOverwritten ==
  [][pc = "pass" => \A k \in inserted : colorDefs'[k] = colorDefs[k]]_vars

\* C2 (amended): when the names of the file are distinct, a key once assigned
\* by some pass keeps its value through every later pass.
C2_NeverOverwrittenDistinct ==
  [][(pc = "pass" /\ DistinctNames(colorsArray))
       => \A k \in inserted : colorDefs'[k] = colorDefs[k]]_vars

\* C2 witness: a was assigned (from a -color entry for "@color/b") in pass 1,
\* and pass 2 then assigned b over that entry; a kept its value.
C2_Witness ==
  /\ pc = "readvec"
  /\ passes = 2
  /\ colorsArray = <<ColorDef(Name_a, AtColor \o Name_b),
                     ColorDef(Name_b, AtColor \o Name_c),
                     ColorDef(Name_c, Hex_00F)>>
  /\ colorDefs[AtColor \o Name_a] = Green
  /\ colorDefs[AtColor \o Name_b] = Blue

\* What C3 promises of a finished load.
AllBoundToChainEnd ==
  \A d \in Range(colorsArray) :
    /\ (<<"@", "c", "o", "l", "o", "r", "/">> \o d.Name) \in DOMAIN colorDefs
    /\ colorDefs[<<"@", "c", "o", "l", "o", "r", "/">> \o d.Name]
         = LiteralColor(ChainEnd(d.Color, colorsArray, Len(colorsArray)))

\* C3 (as claimed): for a well-formed file, in any declaration order, the load
\* ends with every name bound to the colour its reference chain ends in.
C3_AllResolved ==
  /\ (pc = "readvec" /\ passes > 0 /\ WellFormed(colorsArray))
       => AllBoundToChainEnd
  /\ (pc = "pass" /\ WellFormed(colorsArray))
       => passes < Max(1, Len(colorsArray))

\* No text of the file is a key the table held before the load.
NoPresetText == \A d \in Range(colorsArray) : d.Color \notin DOMAIN loadDefs

\* C3 (amended): the same, provided no text of the file is already a key of
\* the table when the load starts; the load then takes at most one pass per
\* definition.
C3_AllResolvedNoPreset ==
  /\ (pc = "readvec" /\ passes > 0 /\ WellFormed(colorsArray) /\ NoPresetText)
       => AllBoundToChainEnd
  /\ (pc = "pass" /\ WellFormed(colorsArray) /\ NoPresetText)
       => passes < Max(1, Len(colorsArray))

\* C3 witness: a chain of three declared in reverse order of dependency has
\* resolved, in three passes, to the literal at its end.
C3_Witness ==
  /\ pc = "readvec"
  /\ passes = 3
  /\ loadDefs = NilDefs
  /\ colorsArray = <<ColorDef(Name_a, AtColor \o Name_b),
                     ColorDef(Name_b, AtColor \o Name_c),
                     ColorDef(Name_c, Hex_F00)>>
  /\ colorDefs[AtColor \o Name_a] = Red
  /\ colorDefs[AtColor \o Name_b] = Red
  /\ colorDefs[AtColor \o Name_c] = Red

\* C4 (as claimed): definitions that can never resolve are never put in the
\* table and cause no error during loading: a pass that ranges over nothing
\* but such definitions ends the load.
C4_UnresolvableOnlySkipped ==
  /\ [](\A d \in Range(colorsArray) :
          (\A e \in Range(colorsArray) : e.Name = d.Name => NeverResolves(e))
            => (<<"@", "c", "o", "l", "o", "r", "/">> \o d.Name) \notin inserted)
  /\ [][(/\ pc = "pass"
         /\ passes' = passes + 1
         /\ \A d \in Range(colors) : NeverResolves(d))
        => pc' = "readvec"]_vars

-----------------------------------------------------------------------------
(* Claims about parseColor (SpecParseColor) and parseDpNum (SpecDpNum) *)

\* C5: for a text that is no key of the table, parseColor succeeds exactly
\* when the text is '#' and 3, 4, 6 or 8 hex digits, with the colour the
\* digits denote (RGB and ARGB doubled, alpha 255 when absent), and fails
\* otherwise with an "Invalid color" error naming the text.
C5_ParseColor ==
  (pc = "returned" /\ call.fn = "parseColor" /\ call.c \notin DOMAIN colorDefs)
    => IF IsHexLiteral(call.c)
       THEN result = [ok |-> TRUE, val |-> LiteralColor(call.c)]
       ELSE result = [ok |-> FALSE,
                      err |-> [msg |-> "Invalid color", text |-> call.c]]

\* C5 witness: "#8421" parsed, with a table that holds other keys, to
\* R=0x44, G=0x22, B=0x11, A=0x88.
C5_Witness ==
  /\ pc = "returned"
  /\ call.fn = "parseColor"
  /\ call.c = <<"#", "8", "4", "2", "1">>
  /\ colorDefs # NilDefs
  /\ result = [ok |-> TRUE, val |-> [R |-> 68, G |-> 34, B |-> 17, A |-> 136]]

\* <integer>dp: one or more decimal digits followed by "dp", nothing else.
IsIntegerDp(n) ==
  /\ Len(n) >= 3
  /\ n[Len(n) - 1] = "d"
  /\ n[Len(n)] = "p"
  /\ \A i \in 1..(Len(n) - 2) : n[i] \in DecDigits

RECURSIVE IntOf(_)
IntOf(digits) ==
  IF digits = <<>> THEN 0
  ELSE 10 * IntOf(SubSeq(digits, 1, Len(digits) - 1)) + HexVal[digits[Len(digits)]]

\* C7 (as claimed): parseDpNum succeeds only for <integer>dp and then returns
\* that integer; for every other string it fails with an "Invalid <field>"
\* error naming the field and the text.
C7_OnlyIntegerDp ==
  (pc = "returned" /\ call.fn = "parseDpNum")
    => /\ result.ok
            => /\ IsIntegerDp(call.n)
               /\ result.val = IntOf(SubSeq(call.n, 1, Len(call.n) - 2))
       /\ ~IsIntegerDp(call.n)
            => result = [ok |-> FALSE,
                         err |-> [msg |-> "Invalid", field |-> call.name,
                                  text |-> call.n]]

-----------------------------------------------------------------------------
(* Claims about the run of main (Spec) *)

\* The -color value a flag report on standard error is about names a key of
\* the table.
RejectedValueIsKey ==
  /\ stderr # <<>>
  /\ stderr[1].msg = "invalid value for flag"
  /\ Len(SplitN2(stderr[1].value)) = 2
  /\ TrimSpace(SplitN2(stderr[1].value)[2]) \in DOMAIN colorDefs

\* C6 (as claimed): a -color value is parsed with the table built so far, so
\* a value naming a colour an earlier -color flag defined is accepted.
C6_TableAvailable == ~(pc = "exit" /\ RejectedValueIsKey)

\* C6 (amended): a -color value is parsed without any table: the flag is
\* accepted exactly when the text after the first '=' (trimmed) is a hex
\* literal, and the (trimmed) name is then bound to the literal's colour; any
\* other value, the name of an earlier colour included, ends the run with
\* status 2 and leaves the table alone.
C6_LiteralsOnly ==
  [][(pc = "flags" /\ argv # <<>> /\ Head(argv).name = "color")
       => LET parts == SplitN2(Head(argv).value) IN
          IF Len(parts) = 2 /\ IsHexLiteral(TrimSpace(parts[2]))
          THEN /\ pc' = "flags"
               /\ colorDefs' = (TrimSpace(parts[1])
                                  :> LiteralColor(TrimSpace(parts[2])))
                                @@ colorDefs
          ELSE /\ pc' = "exit"
               /\ exitStatus' = 2
               /\ colorDefs' = colorDefs]_vars

\* C6 witness: after -color a=#F00, the flag -color b=a has been rejected.
C6_Witness ==
  /\ pc = "exit"
  /\ exitStatus = 2
  /\ RejectedValueIsKey
  /\ stderr[1].value = <<"b", "=", "a">>
  /\ colorDefs = (<<"a">> :> Red)

\* The width, the height or some path's fill or stroke colour of the document
\* does not parse (with the table as it is when the document is rendered).
ParseFailure ==
  \/ ~parseDpNum(vec.Width, "width").ok
  \/ ~parseDpNum(vec.Height, "height").ok
  \/ \E i \in DOMAIN vec.Paths :
       \/ /\ vec.Paths[i].FillColor # <<>>
          /\ ~parseColor(vec.Paths[i].FillColor, colorDefs).ok
       \/ /\ vec.Paths[i].StrokeColor # <<>>
          /\ ~parseColor(vec.Paths[i].StrokeColor, colorDefs).ok

\* C8: when the width, the height or a path's fill or stroke colour fails to
\* parse, no PNG file is written at all.
C8_NoPartialOutput == ParseFailure => written = <<>>

\* C8 witness: with -ios, the first path was drawn, the second path's fill
\* colour did not parse, and the run ended with status 1 and no file.
C8_Witness ==
  /\ pc = "exit"
  /\ exitStatus = 1
  /\ ios
  /\ vec.Width = Dp24
  /\ vec.Height = Dp24
  /\ vec.Paths = <<Path(Hex_F00, <<>>, "M0,0 L1,0 L1,1 Z"),
                   Path(AtColor \o Name_a, <<>>, "M0,0 L1,0 L1,1 Z")>>
  /\ (AtColor \o Name_a) \notin DOMAIN colorDefs
  /\ written = <<>>

\* The run did what was asked: printed the version, or wrote every file.
Succeeded ==
  \/ showVersion /\ stdout = <<version, "\n">>
  \/ Len(written) = (IF ios THEN 3 ELSE 1)

HasErrorPrefix(out) ==
  /\ out # <<>>
  /\ out[1] \in {"ERROR: ", "ERROR: Input vector image parameter is missing"}

UndefinedFlagReported ==
  stderr # <<>> /\ stderr[1].msg = "flag provided but not defined"

\* C9 (as claimed): a failing run ends with status 1 after printing a message
\* prefixed "ERROR:" to standard output, whatever the kind of error; a
\* successful run ends with status 0.  (Runs given a flag the program does
\* not define are left out: the claim's list of errors does not name them.)
C9_ExitStatus ==
  (pc = "exit" /\ ~UndefinedFlagReported)
    => IF Succeeded THEN exitStatus = 0
       ELSE exitStatus = 1 /\ HasErrorPrefix(stdout)

\* C10 (as claimed): -width N and -height N are accepted and replace the
\* document's width and height; without them the document's are used.
C10_WidthHeightOverride ==
  /\ ~(/\ pc = "exit"
       /\ stderr # <<>>
       /\ stderr[1].msg = "flag provided but not defined"
       /\ stderr[1].flag \in {"width", "height"})
  /\ canvas # NilCanvas
       => /\ canvas.W = parseDpNum(vec.Width, "width").val
          /\ canvas.H = parseDpNum(vec.Height, "height").val

=============================================================================
